---------------------------- MODULE Spec2Model ----------------------------
(***************************************************************************)
(* Model of generate_pdf.py: the SlidePDF composer (a subclass of the      *)
(* FPDF page canvas) and the ten-slide script that drives it.              *)
(*                                                                         *)
(* Lengths are integers in units of 1/360000 mm, the unit in which every   *)
(* string width of a core font at an integral point size is exact:         *)
(*   width = sum(cw) * size_pt / 1000 pt = sum(cw) * size_pt * 127 units.  *)
(* Texts are sequences of one-character strings.  An optional argument     *)
(* (Python None or a value) is the empty tuple or a one-element tuple.     *)
(***************************************************************************)
EXTENDS Integers, Sequences, FiniteSets, TLC

VARIABLES
    pdf,      \* the SlidePDF object: pages, cursor, style, page-break policy
    phase,    \* "script": the module-level script runs; otherwise the step of
              \* an arbitrary caller of the composer: "new", "page", "styled",
              \* "placed", "run", "called"
    pc,       \* script: index of the next statement of Script
    x,        \* the caller's variable x (the chip run offset)
    saved,    \* the documents written by output(), in order
    printed,  \* the completion message has been printed
    fontBy,   \* who last set the font on this page: "none", "composer", "caller"
    colorBy,  \* who last set the text colour on this page
    last      \* the most recent composer call: its arguments and the pdf before it

vars == <<pdf, phase, pc, x, saved, printed, fontBy, colorBy, last>>

-----------------------------------------------------------------------------
(* Units and the page canvas (FPDF, orientation 'L', unit 'mm', format A4) *)

MM == 360000
MilliPt == 127

mm(v) == v * MM

PageW == mm(297)
PageH == mm(210)
Margin == mm(10)
CMargin == mm(1)

None == <<>>
Some(v) == <<v>>

NoFont == [family |-> "", style |-> "", size |-> 0]
Font(family, style, size) == [family |-> family, style |-> style, size |-> size]

(* Character widths of the core fonts, in 1/1000 em (the AFM tables). *)
HelveticaCW(c) ==
    CASE c \in {"i", "j", "l"} -> 222
      [] c \in {" ", ",", ".", "/", ":", "f", "t", "I"} -> 278
      [] c \in {"(", ")", "-", "r"} -> 333
      [] c \in {"*"} -> 389
      [] c \in {"c", "k", "s", "v", "x", "y", "z", "J"} -> 500
      [] c \in {"$", "0", "1", "2", "3", "4", "5", "6", "7", "8", "9", "_",
                "a", "b", "d", "e", "g", "h", "n", "o", "p", "q", "u", "L"} -> 556
      [] c \in {"+", "="} -> 584
      [] c \in {"F", "T", "Z"} -> 611
      [] c \in {"&", "A", "B", "E", "K", "P", "S", "V", "X", "Y"} -> 667
      [] c \in {"C", "D", "H", "N", "R", "U", "w"} -> 722
      [] c \in {"G", "O", "Q"} -> 778
      [] c \in {"M", "m"} -> 833
      [] c \in {"%"} -> 889
      [] c \in {"W"} -> 944
      [] OTHER -> 0

HelveticaBoldCW(c) ==
    CASE c \in {" ", ",", ".", "/", "I", "i", "j", "l"} -> 278
      [] c \in {"(", ")", "-", ":", "f", "t"} -> 333
      [] c \in {"*", "r"} -> 389
      [] c \in {"z"} -> 500
      [] c \in {"$", "0", "1", "2", "3", "4", "5", "6", "7", "8", "9", "_",
                "a", "c", "e", "k", "s", "v", "x", "y", "J"} -> 556
      [] c \in {"+", "="} -> 584
      [] c \in {"b", "d", "g", "h", "n", "o", "p", "q", "u", "F", "L", "T", "Z"} -> 611
      [] c \in {"E", "P", "S", "V", "X", "Y"} -> 667
      [] c \in {"&", "A", "B", "C", "D", "H", "K", "N", "R", "U"} -> 722
      [] c \in {"G", "O", "Q", "w"} -> 778
      [] c \in {"M"} -> 833
      [] c \in {"%", "m"} -> 889
      [] c \in {"W"} -> 944
      [] OTHER -> 0

CourierCW(c) == 600

CharWidth(font, c) ==
    CASE font.family = "Courier" -> CourierCW(c)
      [] font.family = "Helvetica" /\ font.style = "B" -> HelveticaBoldCW(c)
      [] OTHER -> HelveticaCW(c)

RECURSIVE SumCW(_, _)
SumCW(font, s) ==
    IF s = <<>> THEN 0 ELSE CharWidth(font, Head(s)) + SumCW(font, Tail(s))

(* The width of s in a given font, whether or not it is the current one. *)
StringWidthIn(font, s) == SumCW(font, s) * font.size * MilliPt

(* FPDF.__init__: no page, no font, automatic page break on with a bottom *)
(* margin of twice the page margin.                                        *)
FPDF_init ==
    [ pages |-> <<>>, w |-> PageW, h |-> PageH,
      x |-> 0, y |-> 0,
      font |-> NoFont, fill |-> <<0, 0, 0>>, stroke |-> <<0, 0, 0>>, color |-> <<0, 0, 0>>,
      auto |-> TRUE, trigger |-> PageH - 2 * Margin,
      err |-> FALSE ]

set_auto_page_break(p, auto, margin) ==
    [p EXCEPT !.auto = auto, !.trigger = p.h - margin]

add_page(p) ==
    [p EXCEPT !.pages = Append(@, [w |-> p.w, h |-> p.h, draws |-> <<>>]),
              !.x = Margin, !.y = Margin]

set_fill_color(p, r, g, b) == [p EXCEPT !.fill = <<r, g, b>>]
set_draw_color(p, r, g, b) == [p EXCEPT !.stroke = <<r, g, b>>]
set_text_color(p, r, g, b) == [p EXCEPT !.color = <<r, g, b>>]
set_font(p, family, style, size) == [p EXCEPT !.font = Font(family, style, size)]

set_x(p, v) == [p EXCEPT !.x = IF v >= 0 THEN v ELSE p.w + v]
set_y(p, v) == [p EXCEPT !.x = Margin, !.y = IF v >= 0 THEN v ELSE p.h + v]
set_xy(p, vx, vy) == set_x(set_y(p, vy), vx)
get_y(p) == p.y

(* A primitive painted with the style current at the moment of the call. *)
Draw(p, k, dx, dy, dw, dh, txt, how) ==
    [ k |-> k, x |-> dx, y |-> dy, w |-> dw, h |-> dh, txt |-> txt, how |-> how,
      font |-> p.font, fill |-> p.fill, stroke |-> p.stroke, color |-> p.color ]

(* Variant of Emit: the page index is never advanced past the first page. *)
Emit_on_first_page(p, d) ==
    IF p.pages = <<>>
    THEN [p EXCEPT !.err = TRUE]
    ELSE [p EXCEPT !.pages[1].draws = Append(@, d)]

(* Every primitive is written to the current page, which is the last one. *)
Emit(p, d) ==
    IF p.pages = <<>>
    THEN [p EXCEPT !.err = TRUE]
    ELSE [p EXCEPT !.pages[Len(p.pages)].draws = Append(@, d)]

rect(p, rx, ry, rw, rh, style) == Emit(p, Draw(p, "rect", rx, ry, rw, rh, <<>>, style))
ellipse(p, ex, ey, ew, eh, style) == Emit(p, Draw(p, "ellipse", ex, ey, ew, eh, <<>>, style))

get_string_width(p, s) == StringWidthIn(p.font, s)

(* FPDF.cell: an automatic page break first if the cell would cross the    *)
(* trigger; w = 0 extends the cell to the right margin; ln = 0 moves right *)
(* of the cell, ln = 1 to the start of the next line, ln = 2 below.        *)
cell(p, cw, ch, txt, ln, align) ==
    LET q == IF p.y + ch > p.trigger /\ p.auto
             THEN [add_page(p) EXCEPT !.x = p.x]
             ELSE p
        w == IF cw = 0 THEN q.w - Margin - q.x ELSE cw
        r == Emit(q, Draw(q, "cell", q.x, q.y, w, ch, txt, align))
    IN  IF ln > 0
        THEN [r EXCEPT !.y = q.y + ch, !.x = IF ln = 1 THEN Margin ELSE q.x]
        ELSE [r EXCEPT !.x = q.x + w]

(* FPDF.multi_cell: break the text at the last space before the line       *)
(* overflows w - 2*c_margin, one cell (ln = 2) per line, then x returns to *)
(* the left margin.  i, j: scan position and line start (from 1); l: the   *)
(* width of the line so far in 1/1000 em; sep: the last space, 0 if none.  *)
RECURSIVE MultiCellScan(_, _, _, _, _, _, _, _)
MultiCellScan(p, w, h, s, i, j, l, sep) ==
    IF i > Len(s)
    THEN cell(p, w, h, SubSeq(s, j, i - 1), 2, "J")
    ELSE LET c == s[i]
             sep1 == IF c = " " THEN i ELSE sep
             l1 == l + CharWidth(p.font, c)
         IN  IF l1 * p.font.size * MilliPt > w - 2 * CMargin
             THEN IF sep1 = 0
                  THEN LET i1 == IF i = j THEN i + 1 ELSE i
                       IN  MultiCellScan(cell(p, w, h, SubSeq(s, j, i1 - 1), 2, "J"),
                                         w, h, s, i1, i1, 0, 0)
                  ELSE MultiCellScan(cell(p, w, h, SubSeq(s, j, sep1 - 1), 2, "J"),
                                     w, h, s, sep1 + 1, sep1 + 1, 0, 0)
             ELSE MultiCellScan(p, w, h, s, i + 1, j, l1, sep1)

multi_cell(p, w, h, txt) ==
    LET r == MultiCellScan(p, w, h, txt, 1, 1, 0, 0)
    IN  [r EXCEPT !.x = Margin]

-----------------------------------------------------------------------------
(* Python helpers used by the composer *)

(* `if v:` on an optional number: None and 0 are both false. *)
TruthyNum(v) == v # None /\ v[1] # 0
(* `if v:` on an optional string: None and '' are both false. *)
TruthyStr(v) == v # None /\ v[1] # <<>>

StartsWithAt(s, sep, i) ==
    i + Len(sep) - 1 <= Len(s) /\ SubSeq(s, i, i + Len(sep) - 1) = sep

(* str.split(sep), sep not empty: cut at the leftmost occurrence, then go  *)
(* on after it, so occurrences that overlap an earlier one are not seen.   *)
RECURSIVE SplitFrom(_, _, _, _)
SplitFrom(s, sep, i, start) ==
    IF i + Len(sep) - 1 > Len(s)
    THEN <<SubSeq(s, start, Len(s))>>
    ELSE IF StartsWithAt(s, sep, i)
         THEN <<SubSeq(s, start, i - 1)>> \o SplitFrom(s, sep, i + Len(sep), i + Len(sep))
         ELSE SplitFrom(s, sep, i + 1, start)

split(s, sep) == SplitFrom(s, sep, 1, 1)

(* str(num) for the page numbers the script uses. *)
str(n) ==
    LET d == <<"0", "1", "2", "3", "4", "5", "6", "7", "8", "9">>
    IN  IF n < 10 THEN <<d[n + 1]>> ELSE <<d[(n \div 10) + 1], d[(n % 10) + 1]>>

-----------------------------------------------------------------------------
(* class SlidePDF(FPDF) *)

(* Variant of SlidePDF_init: line 6 left out, the canvas keeps its default *)
(* automatic page break.                                                  *)
SlidePDF_init_keeps_page_break == FPDF_init

SlidePDF_init == set_auto_page_break(FPDF_init, FALSE, 0)

add_slide(p) ==
    LET p1 == add_page(p)
        p2 == set_fill_color(p1, 26, 26, 46)
    IN  rect(p2, 0, 0, mm(297), mm(210), "F")

slide_number(p, num) ==
    LET p1 == set_font(p, "Helvetica", "", 10)
        p2 == set_text_color(p1, 150, 150, 150)
        p3 == set_xy(p2, mm(280), mm(195))
    IN  cell(p3, mm(10), mm(10), str(num), 0, "R")

title_text(p, text, y, size) ==
    LET p1 == set_font(p, "Helvetica", "B", size)
        p2 == set_text_color(p1, 255, 107, 107)
        p3 == set_xy(p2, mm(20), y)
    IN  cell(p3, mm(257), mm(20), text, 0, "C")

subtitle_text(p, text, y, size) ==
    LET p1 == set_font(p, "Helvetica", "", size)
        p2 == set_text_color(p1, 200, 200, 200)
        p3 == set_xy(p2, mm(20), y)
    IN  cell(p3, mm(257), mm(10), text, 0, "C")

heading(p, text, y) ==
    LET p1 == set_font(p, "Helvetica", "B", 28)
        p2 == set_text_color(p1, 255, 107, 107)
        p3 == set_xy(p2, mm(20), y)
    IN  cell(p3, mm(257), mm(15), text, 0, "")

body_text(p, text, bx, by, size) ==
    LET p1 == set_font(p, "Helvetica", "", size)
        p2 == set_text_color(p1, 230, 230, 230)
        p3 == set_xy(p2, bx, by)
    IN  multi_cell(p3, mm(257), mm(8), text)

(* bullet, lines 45-53: the optional move, the dot marker, the normal style *)
bullet_marker(p, bx, by) ==
    LET p0 == IF TruthyNum(by) THEN set_xy(p, bx, by[1]) ELSE p
        p1 == set_fill_color(p0, 255, 107, 107)
        p2 == ellipse(p1, bx, get_y(p1) + mm(3), mm(4), mm(4), "F")
        p3 == set_xy(p2, bx + mm(8), get_y(p2))
        p4 == set_font(p3, "Helvetica", "", 13)
    IN  set_text_color(p4, 220, 220, 220)

(* Variant of bullet_spans: lines 61-62 left out, the suffix keeps the     *)
(* highlight style.                                                       *)
bullet_spans_without_reset(p, parts, highlight) ==
    LET p1 == cell(p, get_string_width(p, parts[1]), mm(8), parts[1], 0, "")
        p2 == set_font(p1, "Helvetica", "B", 13)
        p3 == set_text_color(p2, 254, 202, 87)
        p4 == cell(p3, get_string_width(p3, highlight), mm(8), highlight, 0, "")
    IN  cell(p4, 0, mm(8), parts[2], 1, "")

(* bullet, lines 57-63: prefix, highlighted middle, suffix *)
bullet_spans(p, parts, highlight) ==
    LET p1 == cell(p, get_string_width(p, parts[1]), mm(8), parts[1], 0, "")
        p2 == set_font(p1, "Helvetica", "B", 13)
        p3 == set_text_color(p2, 254, 202, 87)
        p4 == cell(p3, get_string_width(p3, highlight), mm(8), highlight, 0, "")
        p5 == set_font(p4, "Helvetica", "", 13)
        p6 == set_text_color(p5, 220, 220, 220)
    IN  cell(p6, 0, mm(8), parts[2], 1, "")

(* bullet, lines 54-67: which rendering the highlight argument selects *)
bullet_text(p, text, highlight) ==
    IF TruthyStr(highlight)
    THEN LET parts == split(text, highlight[1])
         IN  IF Len(parts) = 2
             THEN bullet_spans(p, parts, highlight[1])
             ELSE cell(p, 0, mm(8), text, 1, "")
    ELSE cell(p, 0, mm(8), text, 1, "")

bullet(p, text, bx, by, highlight) ==
    LET p1 == bullet_marker(p, bx, by)
        p2 == bullet_text(p1, text, highlight)
    IN  set_y(p2, get_y(p2) + mm(2))

(* Variant of box_item: line 89 left out, the next line starts right      *)
(* below the cell.                                                        *)
box_item_without_gap(p, bx, bw, item) ==
    LET p1 == set_fill_color(p, 255, 107, 107)
        p2 == ellipse(p1, bx + mm(8), get_y(p1) + mm(2), mm(3), mm(3), "F")
        p3 == set_xy(p2, bx + mm(14), get_y(p2))
    IN  cell(p3, bw - mm(20), mm(6), item, 1, "")

(* box, lines 85-89: one marker-plus-text line, then the line advance *)
box_item(p, bx, bw, item) ==
    LET p1 == set_fill_color(p, 255, 107, 107)
        p2 == ellipse(p1, bx + mm(8), get_y(p1) + mm(2), mm(3), mm(3), "F")
        p3 == set_xy(p2, bx + mm(14), get_y(p2))
        p4 == cell(p3, bw - mm(20), mm(6), item, 1, "")
    IN  set_y(p4, get_y(p4) + mm(1))

RECURSIVE box_items(_, _, _, _)
box_items(p, bx, bw, items) ==
    IF items = <<>> THEN p
    ELSE box_items(box_item(p, bx, bw, Head(items)), bx, bw, Tail(items))

box(p, bx, by, bw, bh, title, items) ==
    LET p1 == set_fill_color(p, 40, 40, 60)
        p2 == set_draw_color(p1, 80, 80, 100)
        p3 == rect(p2, bx, by, bw, bh, "DF")
        p4 == set_font(p3, "Helvetica", "B", 14)
        p5 == set_text_color(p4, 72, 219, 251)
        p6 == set_xy(p5, bx + mm(5), by + mm(5))
        p7 == cell(p6, bw - mm(10), mm(8), title, 0, "")
        p8 == set_font(p7, "Helvetica", "", 11)
        p9 == set_text_color(p8, 200, 200, 200)
        p10 == set_xy(p9, bx + mm(8), by + mm(18))
    IN  box_items(p10, bx, bw, items)

fee_row(p, label, fee, color, fy) ==
    LET p1 == set_fill_color(p, 40, 40, 60)
        p2 == rect(p1, mm(30), fy, mm(237), mm(18), "F")
        p3 == set_font(p2, "Helvetica", "", 14)
        p4 == set_text_color(p3, 180, 180, 180)
        p5 == set_xy(p4, mm(35), fy + mm(4))
        p6 == cell(p5, mm(100), mm(10), label, 0, "")
        p7 == set_font(p6, "Helvetica", "B", 18)
        p8 == set_text_color(p7, color[1], color[2], color[3])
        p9 == set_xy(p8, mm(200), fy + mm(3))
    IN  cell(p9, mm(60), mm(10), fee, 0, "R")

stat_box(p, sx, sy, number, label) ==
    LET p1 == set_fill_color(p, 40, 40, 60)
        p2 == rect(p1, sx, sy, mm(70), mm(50), "F")
        p3 == set_font(p2, "Helvetica", "B", 28)
        p4 == set_text_color(p3, 255, 107, 107)
        p5 == set_xy(p4, sx, sy + mm(8))
        p6 == cell(p5, mm(70), mm(15), number, 0, "C")
        p7 == set_font(p6, "Helvetica", "", 11)
        p8 == set_text_color(p7, 150, 150, 150)
        p9 == set_xy(p8, sx, sy + mm(30))
    IN  cell(p9, mm(70), mm(10), label, 0, "C")

(* tag, line 121: the chip width, measured in the font current at the call *)
tag_w(p, text) == get_string_width(p, text) + mm(12)

(* Variant of tag_return: `return w`, the gap of 5 left out. *)
tag_return_without_gap(p, text) == tag_w(p, text)

(* tag, line 127: the width the caller advances by *)
tag_return(p, text) == tag_w(p, text) + mm(5)

(* tag: get_string_width raises when no font was ever set. *)
tag(p, text, tx, ty) ==
    LET p1 == set_fill_color(p, 80, 40, 40)
        p2 == set_draw_color(p1, 255, 107, 107)
    IN  IF p2.font = NoFont
        THEN [p2 EXCEPT !.err = TRUE]
        ELSE LET w == tag_w(p2, text)
                 p3 == rect(p2, tx, ty, w, mm(10), "DF")
                 p4 == set_font(p3, "Helvetica", "", 9)
                 p5 == set_text_color(p4, 255, 150, 150)
                 p6 == set_xy(p5, tx, ty + mm(2))
             IN  cell(p6, w, mm(6), text, 0, "C")

code_box(p, text, cy) ==
    LET p1 == set_fill_color(p, 20, 20, 30)
        p2 == set_draw_color(p1, 60, 60, 80)
        p3 == rect(p2, mm(40), cy, mm(217), mm(14), "DF")
        p4 == set_font(p3, "Courier", "", 12)
        p5 == set_text_color(p4, 72, 219, 251)
        p6 == set_xy(p5, mm(40), cy + mm(3))
    IN  cell(p6, mm(217), mm(8), text, 0, "C")

-----------------------------------------------------------------------------
(* The module-level script, lines 141-357, one record per executed call,   *)
(* loops unrolled in execution order (the loop variables tag, item and     *)
(* y_pos are folded into the arguments; x is kept as a variable because it *)
(* accumulates the values tag returns).  Coordinates are in mm.            *)

Script == <<
    [ op |-> "add_slide", line |-> 142 ],
    [ op |-> "set_font", line |-> 143, family |-> "Helvetica", style |-> "", size |-> 11 ],
    [ op |-> "set_text_color", line |-> 144, r |-> 254, g |-> 202, b |-> 87 ],
    [ op |-> "set_xy", line |-> 145, x |-> 20, y |-> 40 ],
    [ op |-> "cell", line |-> 146, w |-> 257, h |-> 10, txt |-> <<"U", "N", "I", "S", "W", "A", "P", " ", "V", "4", " ", "H", "O", "O", "K">>, align |-> "C" ],
    [ op |-> "title_text", line |-> 147, text |-> <<"S", "e", "n", "t", "i", "m", "e", "n", "t", " ", "F", "e", "e", " ", "H", "o", "o", "k">>, y |-> 55, size |-> 44 ],
    [ op |-> "subtitle_text", line |-> 148, text |-> <<"D", "y", "n", "a", "m", "i", "c", " ", "f", "e", "e", "s", " ", "t", "h", "a", "t", " ", "a", "d", "a", "p", "t", " ", "t", "o", " ", "m", "a", "r", "k", "e", "t", " ", "p", "s", "y", "c", "h", "o", "l", "o", "g", "y">>, y |-> 100, size |-> 18 ],
    [ op |-> "assign_x", line |-> 150, v |-> 60 ],
    [ op |-> "tag_advance", line |-> 152, text |-> <<"D", "y", "n", "a", "m", "i", "c", " ", "F", "e", "e">>, y |-> 130 ],
    [ op |-> "tag_advance", line |-> 152, text |-> <<"C", "u", "s", "t", "o", "m", " ", "H", "o", "o", "k", "s">>, y |-> 130 ],
    [ op |-> "tag_advance", line |-> 152, text |-> <<"O", "r", "a", "c", "l", "e">>, y |-> 130 ],
    [ op |-> "tag_advance", line |-> 152, text |-> <<"L", "P", " ", "F", "e", "e", "s">>, y |-> 130 ],
    [ op |-> "tag_advance", line |-> 152, text |-> <<"D", "E", "X">>, y |-> 130 ],
    [ op |-> "slide_number", line |-> 153, num |-> 1 ],
    [ op |-> "add_slide", line |-> 156 ],
    [ op |-> "heading", line |-> 157, text |-> <<"T", "h", "e", " ", "P", "r", "o", "b", "l", "e", "m">>, y |-> 20 ],
    [ op |-> "body_text", line |-> 158, text |-> <<"T", "r", "a", "d", "i", "t", "i", "o", "n", "a", "l", " ", "A", "M", "M", "s", " ", "u", "s", "e", " ", "f", "i", "x", "e", "d", " ", "f", "e", "e", "s", " ", "t", "h", "a", "t", " ", "a", "r", "e", " ", "s", "u", "b", "o", "p", "t", "i", "m", "a", "l", " ", "i", "n", " ", "a", "l", "l", " ", "m", "a", "r", "k", "e", "t", " ", "c", "o", "n", "d", "i", "t", "i", "o", "n", "s", ".">>, x |-> 20, y |-> 45, size |-> 16 ],
    [ op |-> "box", line |-> 159, x |-> 20, y |-> 70, w |-> 125, h |-> 70, title |-> <<"B", "u", "l", "l", " ", "M", "a", "r", "k", "e", "t", "s", " ", "(", "G", "r", "e", "e", "d", ")">>, items |-> << <<"T", "r", "a", "d", "e", "r", "s", " ", "w", "i", "l", "l", "i", "n", "g", "l", "y", " ", "p", "a", "y", " ", "m", "o", "r", "e">>,
        <<"F", "i", "x", "e", "d", " ", "0", ".", "3", "%", " ", "f", "e", "e", "s", " ", "l", "e", "a", "v", "e", " ", "m", "o", "n", "e", "y", " ", "o", "n", " ", "t", "a", "b", "l", "e">>,
        <<"L", "P", "s", " ", "m", "i", "s", "s", " ", "p", "o", "t", "e", "n", "t", "i", "a", "l", " ", "r", "e", "v", "e", "n", "u", "e">> >> ],
    [ op |-> "box", line |-> 164, x |-> 152, y |-> 70, w |-> 125, h |-> 70, title |-> <<"B", "e", "a", "r", " ", "M", "a", "r", "k", "e", "t", "s", " ", "(", "F", "e", "a", "r", ")">>, items |-> << <<"F", "i", "x", "e", "d", " ", "f", "e", "e", "s", " ", "k", "i", "l", "l", " ", "t", "r", "a", "d", "i", "n", "g", " ", "v", "o", "l", "u", "m", "e">>,
        <<"T", "r", "a", "d", "e", "r", "s", " ", "a", "v", "o", "i", "d", " ", "t", "h", "e", " ", "e", "x", "c", "h", "a", "n", "g", "e">>,
        <<"L", "P", "s", " ", "e", "a", "r", "n", " ", "n", "o", "t", "h", "i", "n", "g">> >> ],
    [ op |-> "slide_number", line |-> 169, num |-> 2 ],
    [ op |-> "add_slide", line |-> 172 ],
    [ op |-> "heading", line |-> 173, text |-> <<"O", "u", "r", " ", "S", "o", "l", "u", "t", "i", "o", "n">>, y |-> 20 ],
    [ op |-> "body_text", line |-> 174, text |-> <<"C", "o", "u", "n", "t", "e", "r", "-", "c", "y", "c", "l", "i", "c", "a", "l", " ", "d", "y", "n", "a", "m", "i", "c", " ", "f", "e", "e", "s", " ", "b", "a", "s", "e", "d", " ", "o", "n", " ", "r", "e", "a", "l", "-", "t", "i", "m", "e", " ", "m", "a", "r", "k", "e", "t", " ", "s", "e", "n", "t", "i", "m", "e", "n", "t">>, x |-> 20, y |-> 45, size |-> 16 ],
    [ op |-> "fee_row", line |-> 175, label |-> <<"E", "x", "t", "r", "e", "m", "e", " ", "F", "e", "a", "r", " ", "(", "0", ")">>, fee |-> <<"0", ".", "2", "5", "%", " ", "f", "e", "e">>, color |-> <<255, 107, 107>>, y |-> 75 ],
    [ op |-> "fee_row", line |-> 176, label |-> <<"N", "e", "u", "t", "r", "a", "l", " ", "(", "5", "0", ")">>, fee |-> <<"0", ".", "3", "4", "5", "%", " ", "f", "e", "e">>, color |-> <<254, 202, 87>>, y |-> 100 ],
    [ op |-> "fee_row", line |-> 177, label |-> <<"E", "x", "t", "r", "e", "m", "e", " ", "G", "r", "e", "e", "d", " ", "(", "1", "0", "0", ")">>, fee |-> <<"0", ".", "4", "4", "%", " ", "f", "e", "e">>, color |-> <<29, 209, 161>>, y |-> 125 ],
    [ op |-> "set_font", line |-> 178, family |-> "Helvetica", style |-> "", size |-> 13 ],
    [ op |-> "set_text_color", line |-> 179, r |-> 150, g |-> 150, b |-> 150 ],
    [ op |-> "set_xy", line |-> 180, x |-> 20, y |-> 160 ],
    [ op |-> "cell", line |-> 181, w |-> 257, h |-> 10, txt |-> <<"M", "a", "x", "i", "m", "i", "z", "e", "s", " ", "f", "e", "e", " ", "x", " ", "v", "o", "l", "u", "m", "e", " ", "a", "c", "r", "o", "s", "s", " ", "a", "l", "l", " ", "m", "a", "r", "k", "e", "t", " ", "c", "y", "c", "l", "e", "s">>, align |-> "C" ],
    [ op |-> "slide_number", line |-> 182, num |-> 3 ],
    [ op |-> "add_slide", line |-> 185 ],
    [ op |-> "heading", line |-> 186, text |-> <<"A", "r", "c", "h", "i", "t", "e", "c", "t", "u", "r", "e">>, y |-> 20 ],
    [ op |-> "box", line |-> 187, x |-> 20, y |-> 50, w |-> 125, h |-> 75, title |-> <<"O", "f", "f", "-", "C", "h", "a", "i", "n", ":", " ", "K", "e", "e", "p", "e", "r", " ", "B", "o", "t">>, items |-> << <<"A", "g", "g", "r", "e", "g", "a", "t", "e", "s", " ", "8", " ", "f", "r", "e", "e", " ", "d", "a", "t", "a", " ", "s", "o", "u", "r", "c", "e", "s">>,
        <<"W", "e", "i", "g", "h", "t", "e", "d", " ", "s", "e", "n", "t", "i", "m", "e", "n", "t", " ", "s", "c", "o", "r", "i", "n", "g">>,
        <<"U", "p", "d", "a", "t", "e", "s", " ", "e", "v", "e", "r", "y", " ", "4", " ", "h", "o", "u", "r", "s">>,
        <<"$", "0", "/", "m", "o", "n", "t", "h", " ", "d", "a", "t", "a", " ", "c", "o", "s", "t", "s">> >> ],
    [ op |-> "box", line |-> 193, x |-> 152, y |-> 50, w |-> 125, h |-> 75, title |-> <<"O", "n", "-", "C", "h", "a", "i", "n", ":", " ", "H", "o", "o", "k", " ", "C", "o", "n", "t", "r", "a", "c", "t">>, items |-> << <<"U", "n", "i", "s", "w", "a", "p", " ", "v", "4", " ", "b", "e", "f", "o", "r", "e", "S", "w", "a", "p", " ", "h", "o", "o", "k">>,
        <<"E", "M", "A", " ", "s", "m", "o", "o", "t", "h", "i", "n", "g", " ", "(", "a", "n", "t", "i", "-", "m", "a", "n", "i", "p", "u", "l", "a", "t", "i", "o", "n", ")">>,
        <<"S", "t", "a", "l", "e", "n", "e", "s", "s", " ", "p", "r", "o", "t", "e", "c", "t", "i", "o", "n", " ", "(", "6", "h", "r", " ", "f", "a", "l", "l", "b", "a", "c", "k", ")">>,
        <<"G", "a", "s", "-", "e", "f", "f", "i", "c", "i", "e", "n", "t", " ", "d", "e", "s", "i", "g", "n">> >> ],
    [ op |-> "code_box", line |-> 199, text |-> <<"f", "e", "e", " ", "=", " ", "M", "I", "N", "_", "F", "E", "E", " ", "+", " ", "(", "s", "e", "n", "t", "i", "m", "e", "n", "t", "S", "c", "o", "r", "e", " ", "*", " ", "F", "E", "E", "_", "R", "A", "N", "G", "E", " ", "/", " ", "1", "0", "0", ")">>, y |-> 145 ],
    [ op |-> "slide_number", line |-> 200, num |-> 4 ],
    [ op |-> "add_slide", line |-> 203 ],
    [ op |-> "heading", line |-> 204, text |-> <<"S", "e", "n", "t", "i", "m", "e", "n", "t", " ", "D", "a", "t", "a", " ", "S", "o", "u", "r", "c", "e", "s">>, y |-> 20 ],
    [ op |-> "body_text", line |-> 205, text |-> <<"8", " ", "f", "r", "e", "e", " ", "A", "P", "I", "s", " ", "a", "g", "g", "r", "e", "g", "a", "t", "e", "d", " ", "w", "i", "t", "h", " ", "w", "e", "i", "g", "h", "t", "e", "d", " ", "s", "c", "o", "r", "i", "n", "g">>, x |-> 20, y |-> 45, size |-> 14 ],
    [ op |-> "set_fill_color", line |-> 211, r |-> 255, g |-> 107, b |-> 107 ],
    [ op |-> "ellipse", line |-> 212, x |-> 25, y |-> 73, w |-> 4, h |-> 4, style |-> "F" ],
    [ op |-> "set_font", line |-> 213, family |-> "Helvetica", style |-> "", size |-> 13 ],
    [ op |-> "set_text_color", line |-> 214, r |-> 220, g |-> 220, b |-> 220 ],
    [ op |-> "set_xy", line |-> 215, x |-> 33, y |-> 70 ],
    [ op |-> "cell", line |-> 216, w |-> 100, h |-> 8, txt |-> <<"F", "e", "a", "r", " ", "&", " ", "G", "r", "e", "e", "d", " ", "I", "n", "d", "e", "x", " ", "(", "3", "0", "%", ")">>, align |-> "" ],
    [ op |-> "set_fill_color", line |-> 211, r |-> 255, g |-> 107, b |-> 107 ],
    [ op |-> "ellipse", line |-> 212, x |-> 25, y |-> 95, w |-> 4, h |-> 4, style |-> "F" ],
    [ op |-> "set_font", line |-> 213, family |-> "Helvetica", style |-> "", size |-> 13 ],
    [ op |-> "set_text_color", line |-> 214, r |-> 220, g |-> 220, b |-> 220 ],
    [ op |-> "set_xy", line |-> 215, x |-> 33, y |-> 92 ],
    [ op |-> "cell", line |-> 216, w |-> 100, h |-> 8, txt |-> <<"C", "o", "i", "n", "G", "e", "c", "k", "o", " ", "G", "l", "o", "b", "a", "l", " ", "(", "2", "0", "%", ")">>, align |-> "" ],
    [ op |-> "set_fill_color", line |-> 211, r |-> 255, g |-> 107, b |-> 107 ],
    [ op |-> "ellipse", line |-> 212, x |-> 25, y |-> 117, w |-> 4, h |-> 4, style |-> "F" ],
    [ op |-> "set_font", line |-> 213, family |-> "Helvetica", style |-> "", size |-> 13 ],
    [ op |-> "set_text_color", line |-> 214, r |-> 220, g |-> 220, b |-> 220 ],
    [ op |-> "set_xy", line |-> 215, x |-> 33, y |-> 114 ],
    [ op |-> "cell", line |-> 216, w |-> 100, h |-> 8, txt |-> <<"C", "o", "i", "n", "G", "e", "c", "k", "o", " ", "T", "r", "e", "n", "d", "i", "n", "g", " ", "(", "1", "0", "%", ")">>, align |-> "" ],
    [ op |-> "set_fill_color", line |-> 211, r |-> 255, g |-> 107, b |-> 107 ],
    [ op |-> "ellipse", line |-> 212, x |-> 25, y |-> 139, w |-> 4, h |-> 4, style |-> "F" ],
    [ op |-> "set_font", line |-> 213, family |-> "Helvetica", style |-> "", size |-> 13 ],
    [ op |-> "set_text_color", line |-> 214, r |-> 220, g |-> 220, b |-> 220 ],
    [ op |-> "set_xy", line |-> 215, x |-> 33, y |-> 136 ],
    [ op |-> "cell", line |-> 216, w |-> 100, h |-> 8, txt |-> <<"B", "i", "t", "c", "o", "i", "n", " ", "D", "o", "m", "i", "n", "a", "n", "c", "e", " ", "(", "1", "0", "%", ")">>, align |-> "" ],
    [ op |-> "set_fill_color", line |-> 223, r |-> 255, g |-> 107, b |-> 107 ],
    [ op |-> "ellipse", line |-> 224, x |-> 155, y |-> 73, w |-> 4, h |-> 4, style |-> "F" ],
    [ op |-> "set_font", line |-> 225, family |-> "Helvetica", style |-> "", size |-> 13 ],
    [ op |-> "set_text_color", line |-> 226, r |-> 220, g |-> 220, b |-> 220 ],
    [ op |-> "set_xy", line |-> 227, x |-> 163, y |-> 70 ],
    [ op |-> "cell", line |-> 228, w |-> 100, h |-> 8, txt |-> <<"D", "e", "F", "i", " ", "L", "l", "a", "m", "a", " ", "T", "V", "L", " ", "(", "1", "0", "%", ")">>, align |-> "" ],
    [ op |-> "set_fill_color", line |-> 223, r |-> 255, g |-> 107, b |-> 107 ],
    [ op |-> "ellipse", line |-> 224, x |-> 155, y |-> 95, w |-> 4, h |-> 4, style |-> "F" ],
    [ op |-> "set_font", line |-> 225, family |-> "Helvetica", style |-> "", size |-> 13 ],
    [ op |-> "set_text_color", line |-> 226, r |-> 220, g |-> 220, b |-> 220 ],
    [ op |-> "set_xy", line |-> 227, x |-> 163, y |-> 92 ],
    [ op |-> "cell", line |-> 228, w |-> 100, h |-> 8, txt |-> <<"E", "T", "H", " ", "P", "r", "i", "c", "e", " ", "M", "o", "v", "e", "m", "e", "n", "t", " ", "(", "1", "0", "%", ")">>, align |-> "" ],
    [ op |-> "set_fill_color", line |-> 223, r |-> 255, g |-> 107, b |-> 107 ],
    [ op |-> "ellipse", line |-> 224, x |-> 155, y |-> 117, w |-> 4, h |-> 4, style |-> "F" ],
    [ op |-> "set_font", line |-> 225, family |-> "Helvetica", style |-> "", size |-> 13 ],
    [ op |-> "set_text_color", line |-> 226, r |-> 220, g |-> 220, b |-> 220 ],
    [ op |-> "set_xy", line |-> 227, x |-> 163, y |-> 114 ],
    [ op |-> "cell", line |-> 228, w |-> 100, h |-> 8, txt |-> <<"C", "r", "y", "p", "t", "o", "C", "o", "m", "p", "a", "r", "e", " ", "S", "o", "c", "i", "a", "l", " ", "(", "5", "%", ")">>, align |-> "" ],
    [ op |-> "set_fill_color", line |-> 223, r |-> 255, g |-> 107, b |-> 107 ],
    [ op |-> "ellipse", line |-> 224, x |-> 155, y |-> 139, w |-> 4, h |-> 4, style |-> "F" ],
    [ op |-> "set_font", line |-> 225, family |-> "Helvetica", style |-> "", size |-> 13 ],
    [ op |-> "set_text_color", line |-> 226, r |-> 220, g |-> 220, b |-> 220 ],
    [ op |-> "set_xy", line |-> 227, x |-> 163, y |-> 136 ],
    [ op |-> "cell", line |-> 228, w |-> 100, h |-> 8, txt |-> <<"B", "l", "o", "c", "k", "c", "h", "a", "i", "n", ".", "c", "o", "m", " ", "S", "t", "a", "t", "s", " ", "(", "5", "%", ")">>, align |-> "" ],
    [ op |-> "slide_number", line |-> 231, num |-> 5 ],
    [ op |-> "add_slide", line |-> 234 ],
    [ op |-> "heading", line |-> 235, text |-> <<"S", "e", "c", "u", "r", "i", "t", "y", " ", "&", " ", "A", "n", "t", "i", "-", "M", "a", "n", "i", "p", "u", "l", "a", "t", "i", "o", "n">>, y |-> 20 ],
    [ op |-> "box", line |-> 236, x |-> 20, y |-> 50, w |-> 130, h |-> 55, title |-> <<"E", "M", "A", " ", "S", "m", "o", "o", "t", "h", "i", "n", "g">>, items |-> << <<"3", "0", "%", " ", "n", "e", "w", " ", "/", " ", "7", "0", "%", " ", "h", "i", "s", "t", "o", "r", "i", "c", "a", "l", " ", "d", "a", "t", "a">>,
        <<"P", "r", "e", "v", "e", "n", "t", "s", " ", "s", "u", "d", "d", "e", "n", " ", "f", "e", "e", " ", "m", "a", "n", "i", "p", "u", "l", "a", "t", "i", "o", "n">>,
        <<"L", "i", "m", "i", "t", "s", " ", "s", "i", "n", "g", "l", "e", "-", "u", "p", "d", "a", "t", "e", " ", "i", "m", "p", "a", "c", "t">> >> ],
    [ op |-> "box", line |-> 241, x |-> 157, y |-> 50, w |-> 120, h |-> 55, title |-> <<"A", "n", "t", "i", "-", "F", "r", "o", "n", "t", "r", "u", "n", "n", "i", "n", "g">>, items |-> << <<"R", "a", "n", "d", "o", "m", "i", "z", "e", "d", " ", "u", "p", "d", "a", "t", "e", " ", "t", "i", "m", "i", "n", "g">>,
        <<"+", "/", "-", " ", "3", "0", " ", "m", "i", "n", " ", "j", "i", "t", "t", "e", "r", " ", "o", "n", " ", "u", "p", "d", "a", "t", "e", "s">>,
        <<"U", "n", "p", "r", "e", "d", "i", "c", "t", "a", "b", "l", "e", " ", "e", "x", "e", "c", "u", "t", "i", "o", "n">> >> ],
    [ op |-> "set_xy", line |-> 246, x |-> 25, y |-> 115 ],
    [ op |-> "bullet", line |-> 247, text |-> <<"S", "t", "a", "l", "e", "n", "e", "s", "s", " ", "p", "r", "o", "t", "e", "c", "t", "i", "o", "n", ":", " ", "A", "u", "t", "o", " ", "f", "a", "l", "l", "b", "a", "c", "k", " ", "t", "o", " ", "0", ".", "3", "0", "%", " ", "a", "f", "t", "e", "r", " ", "6", " ", "h", "o", "u", "r", "s">>, x |-> 25, y |-> None, highlight |-> None ],
    [ op |-> "bullet", line |-> 248, text |-> <<"B", "o", "u", "n", "d", "e", "d", " ", "f", "e", "e", "s", ":", " ", "A", "l", "w", "a", "y", "s", " ", "b", "e", "t", "w", "e", "e", "n", " ", "0", ".", "2", "5", "%", " ", "-", " ", "0", ".", "4", "4", "%">>, x |-> 25, y |-> None, highlight |-> None ],
    [ op |-> "bullet", line |-> 249, text |-> <<"M", "u", "l", "t", "i", "-", "k", "e", "e", "p", "e", "r", " ", "s", "u", "p", "p", "o", "r", "t", ":", " ", "D", "e", "c", "e", "n", "t", "r", "a", "l", "i", "z", "e", "d", " ", "u", "p", "d", "a", "t", "e", " ", "a", "u", "t", "h", "o", "r", "i", "t", "y">>, x |-> 25, y |-> None, highlight |-> None ],
    [ op |-> "slide_number", line |-> 250, num |-> 6 ],
    [ op |-> "add_slide", line |-> 253 ],
    [ op |-> "heading", line |-> 254, text |-> <<"T", "e", "c", "h", " ", "S", "t", "a", "c", "k">>, y |-> 20 ],
    [ op |-> "stat_box", line |-> 255, x |-> 40, y |-> 55, number |-> <<"5", "0">>, label |-> <<"T", "e", "s", "t", " ", "C", "a", "s", "e", "s">> ],
    [ op |-> "stat_box", line |-> 256, x |-> 115, y |-> 55, number |-> <<"8">>, label |-> <<"D", "a", "t", "a", " ", "S", "o", "u", "r", "c", "e", "s">> ],
    [ op |-> "stat_box", line |-> 257, x |-> 190, y |-> 55, number |-> <<"$", "0">>, label |-> <<"M", "o", "n", "t", "h", "l", "y", " ", "C", "o", "s", "t">> ],
    [ op |-> "assign_x", line |-> 258, v |-> 40 ],
    [ op |-> "tag_advance", line |-> 260, text |-> <<"S", "o", "l", "i", "d", "i", "t", "y", " ", "0", ".", "8", ".", "2", "6">>, y |-> 120 ],
    [ op |-> "tag_advance", line |-> 260, text |-> <<"F", "o", "u", "n", "d", "r", "y">>, y |-> 120 ],
    [ op |-> "tag_advance", line |-> 260, text |-> <<"U", "n", "i", "s", "w", "a", "p", " ", "v", "4">>, y |-> 120 ],
    [ op |-> "tag_advance", line |-> 260, text |-> <<"T", "y", "p", "e", "S", "c", "r", "i", "p", "t">>, y |-> 120 ],
    [ op |-> "tag_advance", line |-> 260, text |-> <<"e", "t", "h", "e", "r", "s", ".", "j", "s">>, y |-> 120 ],
    [ op |-> "tag_advance", line |-> 260, text |-> <<"O", "p", "e", "n", "Z", "e", "p", "p", "e", "l", "i", "n">>, y |-> 120 ],
    [ op |-> "set_font", line |-> 261, family |-> "Helvetica", style |-> "", size |-> 12 ],
    [ op |-> "set_text_color", line |-> 262, r |-> 150, g |-> 150, b |-> 150 ],
    [ op |-> "set_xy", line |-> 263, x |-> 20, y |-> 150 ],
    [ op |-> "cell", line |-> 264, w |-> 257, h |-> 10, txt |-> <<"S", "u", "p", "p", "o", "r", "t", "s", ":", " ", "E", "t", "h", "e", "r", "e", "u", "m", ",", " ", "A", "r", "b", "i", "t", "r", "u", "m", ",", " ", "B", "a", "s", "e", ",", " ", "O", "p", "t", "i", "m", "i", "s", "m", ",", " ", "P", "o", "l", "y", "g", "o", "n", " ", "+", " ", "T", "e", "s", "t", "n", "e", "t", "s">>, align |-> "C" ],
    [ op |-> "slide_number", line |-> 265, num |-> 7 ],
    [ op |-> "add_slide", line |-> 268 ],
    [ op |-> "heading", line |-> 269, text |-> <<"D", "e", "c", "e", "n", "t", "r", "a", "l", "i", "z", "a", "t", "i", "o", "n", " ", "R", "o", "a", "d", "m", "a", "p">>, y |-> 20 ],
    [ op |-> "set_font", line |-> 272, family |-> "Helvetica", style |-> "B", size |-> 12 ],
    [ op |-> "set_text_color", line |-> 273, r |-> 72, g |-> 219, b |-> 251 ],
    [ op |-> "set_xy", line |-> 274, x |-> 25, y |-> 50 ],
    [ op |-> "cell", line |-> 275, w |-> 100, h |-> 8, txt |-> <<"v", "1", " ", "-", " ", "C", "u", "r", "r", "e", "n", "t", " ", "(", "I", "m", "p", "l", "e", "m", "e", "n", "t", "e", "d", ")">>, align |-> "" ],
    [ op |-> "set_font", line |-> 276, family |-> "Helvetica", style |-> "", size |-> 11 ],
    [ op |-> "set_text_color", line |-> 277, r |-> 200, g |-> 200, b |-> 200 ],
    [ op |-> "set_xy", line |-> 278, x |-> 30, y |-> 60 ],
    [ op |-> "cell", line |-> 279, w |-> 0, h |-> 6, txt |-> <<"-", " ", "M", "u", "l", "t", "i", "-", "k", "e", "e", "p", "e", "r", " ", "s", "u", "p", "p", "o", "r", "t", " ", "(", "m", "u", "l", "t", "i", "p", "l", "e", " ", "a", "u", "t", "h", "o", "r", "i", "z", "e", "d", " ", "a", "d", "d", "r", "e", "s", "s", "e", "s", ")">>, align |-> "" ],
    [ op |-> "set_xy", line |-> 280, x |-> 30, y |-> 68 ],
    [ op |-> "cell", line |-> 281, w |-> 0, h |-> 6, txt |-> <<"-", " ", "R", "a", "n", "d", "o", "m", "i", "z", "e", "d", " ", "t", "i", "m", "i", "n", "g", " ", "j", "i", "t", "t", "e", "r", " ", "(", "a", "n", "t", "i", "-", "f", "r", "o", "n", "t", "r", "u", "n", "n", "i", "n", "g", ")">>, align |-> "" ],
    [ op |-> "set_xy", line |-> 282, x |-> 30, y |-> 76 ],
    [ op |-> "cell", line |-> 283, w |-> 0, h |-> 6, txt |-> <<"-", " ", "E", "M", "A", " ", "s", "m", "o", "o", "t", "h", "i", "n", "g", " ", "+", " ", "s", "t", "a", "l", "e", "n", "e", "s", "s", " ", "f", "a", "l", "l", "b", "a", "c", "k">>, align |-> "" ],
    [ op |-> "set_font", line |-> 286, family |-> "Helvetica", style |-> "B", size |-> 12 ],
    [ op |-> "set_text_color", line |-> 287, r |-> 254, g |-> 202, b |-> 87 ],
    [ op |-> "set_xy", line |-> 288, x |-> 25, y |-> 90 ],
    [ op |-> "cell", line |-> 289, w |-> 100, h |-> 8, txt |-> <<"v", "1", ".", "5", " ", "-", " ", "S", "h", "o", "r", "t", "-", "t", "e", "r", "m">>, align |-> "" ],
    [ op |-> "set_font", line |-> 290, family |-> "Helvetica", style |-> "", size |-> 11 ],
    [ op |-> "set_text_color", line |-> 291, r |-> 200, g |-> 200, b |-> 200 ],
    [ op |-> "set_xy", line |-> 292, x |-> 30, y |-> 100 ],
    [ op |-> "cell", line |-> 293, w |-> 0, h |-> 6, txt |-> <<"-", " ", "C", "h", "a", "i", "n", "l", "i", "n", "k", " ", "A", "u", "t", "o", "m", "a", "t", "i", "o", "n", " ", "f", "o", "r", " ", "r", "e", "l", "i", "a", "b", "l", "e", " ", "e", "x", "e", "c", "u", "t", "i", "o", "n">>, align |-> "" ],
    [ op |-> "set_xy", line |-> 294, x |-> 30, y |-> 108 ],
    [ op |-> "cell", line |-> 295, w |-> 0, h |-> 6, txt |-> <<"-", " ", "M", "u", "l", "t", "i", "-", "s", "i", "g", " ", "k", "e", "e", "p", "e", "r", " ", "(", "3", "-", "o", "f", "-", "5", " ", "t", "r", "u", "s", "t", "e", "d", " ", "u", "p", "d", "a", "t", "e", "r", "s", ")">>, align |-> "" ],
    [ op |-> "set_font", line |-> 298, family |-> "Helvetica", style |-> "B", size |-> 12 ],
    [ op |-> "set_text_color", line |-> 299, r |-> 255, g |-> 107, b |-> 107 ],
    [ op |-> "set_xy", line |-> 300, x |-> 25, y |-> 122 ],
    [ op |-> "cell", line |-> 301, w |-> 100, h |-> 8, txt |-> <<"v", "2", " ", "-", " ", "M", "e", "d", "i", "u", "m", "-", "t", "e", "r", "m">>, align |-> "" ],
    [ op |-> "set_font", line |-> 302, family |-> "Helvetica", style |-> "", size |-> 11 ],
    [ op |-> "set_text_color", line |-> 303, r |-> 200, g |-> 200, b |-> 200 ],
    [ op |-> "set_xy", line |-> 304, x |-> 30, y |-> 132 ],
    [ op |-> "cell", line |-> 305, w |-> 0, h |-> 6, txt |-> <<"-", " ", "C", "h", "a", "i", "n", "l", "i", "n", "k", " ", "F", "u", "n", "c", "t", "i", "o", "n", "s", " ", "f", "o", "r", " ", "t", "r", "u", "s", "t", "l", "e", "s", "s", " ", "o", "f", "f", "-", "c", "h", "a", "i", "n", " ", "c", "o", "m", "p", "u", "t", "e">>, align |-> "" ],
    [ op |-> "set_xy", line |-> 306, x |-> 30, y |-> 140 ],
    [ op |-> "cell", line |-> 307, w |-> 0, h |-> 6, txt |-> <<"-", " ", "M", "u", "l", "t", "i", "p", "l", "e", " ", "i", "n", "d", "e", "p", "e", "n", "d", "e", "n", "t", " ", "d", "a", "t", "a", " ", "a", "g", "g", "r", "e", "g", "a", "t", "o", "r", "s">>, align |-> "" ],
    [ op |-> "set_font", line |-> 310, family |-> "Helvetica", style |-> "B", size |-> 12 ],
    [ op |-> "set_text_color", line |-> 311, r |-> 167, g |-> 139, b |-> 250 ],
    [ op |-> "set_xy", line |-> 312, x |-> 25, y |-> 154 ],
    [ op |-> "cell", line |-> 313, w |-> 100, h |-> 8, txt |-> <<"v", "3", " ", "-", " ", "L", "o", "n", "g", "-", "t", "e", "r", "m">>, align |-> "" ],
    [ op |-> "set_font", line |-> 314, family |-> "Helvetica", style |-> "", size |-> 11 ],
    [ op |-> "set_text_color", line |-> 315, r |-> 200, g |-> 200, b |-> 200 ],
    [ op |-> "set_xy", line |-> 316, x |-> 30, y |-> 164 ],
    [ op |-> "cell", line |-> 317, w |-> 0, h |-> 6, txt |-> <<"-", " ", "F", "u", "l", "l", "y", " ", "d", "e", "c", "e", "n", "t", "r", "a", "l", "i", "z", "e", "d", " ", "o", "r", "a", "c", "l", "e", " ", "n", "e", "t", "w", "o", "r", "k">>, align |-> "" ],
    [ op |-> "set_xy", line |-> 318, x |-> 30, y |-> 172 ],
    [ op |-> "cell", line |-> 319, w |-> 0, h |-> 6, txt |-> <<"-", " ", "D", "A", "O", " ", "g", "o", "v", "e", "r", "n", "a", "n", "c", "e", " ", "f", "o", "r", " ", "p", "a", "r", "a", "m", "e", "t", "e", "r", " ", "u", "p", "d", "a", "t", "e", "s">>, align |-> "" ],
    [ op |-> "slide_number", line |-> 321, num |-> 8 ],
    [ op |-> "add_slide", line |-> 324 ],
    [ op |-> "heading", line |-> 325, text |-> <<"Q", "u", "i", "c", "k", " ", "S", "t", "a", "r", "t">>, y |-> 20 ],
    [ op |-> "set_font", line |-> 326, family |-> "Helvetica", style |-> "B", size |-> 12 ],
    [ op |-> "set_text_color", line |-> 327, r |-> 72, g |-> 219, b |-> 251 ],
    [ op |-> "set_xy", line |-> 328, x |-> 40, y |-> 55 ],
    [ op |-> "cell", line |-> 329, w |-> 100, h |-> 8, txt |-> <<"R", "u", "n", " ", "T", "e", "s", "t", "s">>, align |-> "" ],
    [ op |-> "code_box", line |-> 330, text |-> <<"f", "o", "r", "g", "e", " ", "t", "e", "s", "t">>, y |-> 65 ],
    [ op |-> "set_xy", line |-> 331, x |-> 40, y |-> 95 ],
    [ op |-> "cell", line |-> 332, w |-> 100, h |-> 8, txt |-> <<"L", "o", "c", "a", "l", " ", "D", "e", "m", "o">>, align |-> "" ],
    [ op |-> "code_box", line |-> 333, text |-> <<"b", "a", "s", "h", " ", "d", "e", "m", "o", ".", "s", "h">>, y |-> 105 ],
    [ op |-> "set_xy", line |-> 334, x |-> 40, y |-> 135 ],
    [ op |-> "cell", line |-> 335, w |-> 100, h |-> 8, txt |-> <<"D", "e", "p", "l", "o", "y", " ", "&", " ", "R", "u", "n", " ", "K", "e", "e", "p", "e", "r">>, align |-> "" ],
    [ op |-> "code_box", line |-> 336, text |-> <<"f", "o", "r", "g", "e", " ", "s", "c", "r", "i", "p", "t", " ", "s", "c", "r", "i", "p", "t", "/", "D", "e", "p", "l", "o", "y", "F", "u", "l", "l", "D", "e", "m", "o", ".", "s", ".", "s", "o", "l", " ", "-", "-", "b", "r", "o", "a", "d", "c", "a", "s", "t">>, y |-> 145 ],
    [ op |-> "code_box", line |-> 337, text |-> <<"c", "d", " ", "k", "e", "e", "p", "e", "r", " ", "&", "&", " ", "n", "p", "x", " ", "t", "s", "-", "n", "o", "d", "e", " ", "s", "r", "c", "/", "m", "u", "l", "t", "i", "-", "s", "o", "u", "r", "c", "e", "-", "k", "e", "e", "p", "e", "r", ".", "t", "s">>, y |-> 165 ],
    [ op |-> "slide_number", line |-> 338, num |-> 9 ],
    [ op |-> "add_slide", line |-> 341 ],
    [ op |-> "title_text", line |-> 342, text |-> <<"T", "h", "a", "n", "k", " ", "Y", "o", "u">>, y |-> 60, size |-> 48 ],
    [ op |-> "subtitle_text", line |-> 343, text |-> <<"S", "e", "n", "t", "i", "m", "e", "n", "t", "-", "R", "e", "s", "p", "o", "n", "s", "i", "v", "e", " ", "F", "e", "e", " ", "H", "o", "o", "k", " ", "f", "o", "r", " ", "U", "n", "i", "s", "w", "a", "p", " ", "v", "4">>, y |-> 95, size |-> 18 ],
    [ op |-> "set_font", line |-> 344, family |-> "Helvetica", style |-> "", size |-> 14 ],
    [ op |-> "set_text_color", line |-> 345, r |-> 150, g |-> 150, b |-> 150 ],
    [ op |-> "set_xy", line |-> 346, x |-> 20, y |-> 125 ],
    [ op |-> "cell", line |-> 347, w |-> 257, h |-> 10, txt |-> <<"D", "y", "n", "a", "m", "i", "c", " ", "f", "e", "e", "s", " ", "t", "h", "a", "t", " ", "a", "d", "a", "p", "t", " ", "t", "o", " ", "m", "a", "r", "k", "e", "t", " ", "p", "s", "y", "c", "h", "o", "l", "o", "g", "y">>, align |-> "C" ],
    [ op |-> "set_xy", line |-> 348, x |-> 20, y |-> 138 ],
    [ op |-> "cell", line |-> 349, w |-> 257, h |-> 10, txt |-> <<"M", "a", "x", "i", "m", "i", "z", "i", "n", "g", " ", "L", "P", " ", "r", "e", "v", "e", "n", "u", "e", " ", "a", "c", "r", "o", "s", "s", " ", "a", "l", "l", " ", "m", "a", "r", "k", "e", "t", " ", "c", "y", "c", "l", "e", "s">>, align |-> "C" ],
    [ op |-> "assign_x", line |-> 350, v |-> 105 ],
    [ op |-> "tag_advance", line |-> 351, text |-> <<"M", "I", "T", " ", "L", "i", "c", "e", "n", "s", "e">>, y |-> 165 ],
    [ op |-> "tag", line |-> 352, text |-> <<"O", "p", "e", "n", " ", "S", "o", "u", "r", "c", "e">>, y |-> 165 ],
    [ op |-> "slide_number", line |-> 353, num |-> 10 ],
    [ op |-> "output", line |-> 356 ],
    [ op |-> "print", line |-> 357 ]
>>

-----------------------------------------------------------------------------
(* Bounds of the arbitrary caller *)

MaxTextLen == 3
MaxRun == 3
MaxItems == 2

RECURSIVE SeqsUpTo(_, _)
SeqsUpTo(S, n) ==
    IF n = 0 THEN {<<>>}
    ELSE LET T == SeqsUpTo(S, n - 1)
         IN  T \cup {Append(t, c) : t \in {u \in T : Len(u) = n - 1}, c \in S}

BulletTexts == SeqsUpTo({"a", "b"}, MaxTextLen)
Highlights == {None} \cup {Some(h) : h \in BulletTexts}
BulletYs == {None, Some(0), Some(mm(115))}
CallerFonts == { Font("Helvetica", "", 18), Font("Helvetica", "B", 11),
                 Font("Courier", "", 9), Font("Helvetica", "", 6) }
CallerXYs == { <<mm(25), mm(115)>>, <<mm(40), mm(150)>> }
StartXs == { mm(40), mm(60) }
TagTexts == { <<>>, <<"D", "E", "X">>, <<"O", "r", "a", "c", "l", "e">>,
              <<"S", "o", "l", "i", "d", "i", "t", "y", " ", "0", ".", "8", ".", "2", "6">> }
ItemTexts == { <<"a">>, <<"L", "P", "s">> }
BoxFrames == { <<mm(20), mm(70), mm(125), mm(70)>>, <<mm(152), mm(50), mm(20), mm(8)>> }

-----------------------------------------------------------------------------
(* The record of the most recent composer call *)

Call(op, text, cx, cy, highlight, items, frame, num, ret) ==
    [ op |-> op, text |-> text, x |-> cx, y |-> cy, highlight |-> highlight,
      items |-> items, frame |-> frame, num |-> num, ret |-> ret, pre |-> pdf ]

NoCall == [ op |-> "none", text |-> <<>>, x |-> 0, y |-> None, highlight |-> None,
            items |-> <<>>, frame |-> <<>>, num |-> 0, ret |-> 0, pre |-> SlidePDF_init ]

BulletCall(text, bx, by, hl) == Call("bullet", text, bx, by, hl, <<>>, <<>>, 0, 0)
BoxCall(bx, by, bw, bh, title, items) ==
    Call("box", title, bx, Some(by), None, items, <<bx, by, bw, bh>>, 0, 0)
TagCall(text, ty) ==
    Call("tag", text, x, Some(ty), None, <<>>, <<>>, 0,
         IF pdf.font = NoFont THEN 0 ELSE tag_return(pdf, text))
SlideNumberCall(num) == Call("slide_number", <<>>, 0, None, None, <<>>, <<>>, num, 0)
OtherCall(op) == Call(op, <<>>, 0, None, None, <<>>, <<>>, 0, 0)

-----------------------------------------------------------------------------
(* Initial state: line 139, pdf = SlidePDF() *)

Init ==
    /\ pdf = SlidePDF_init
    /\ phase \in {"script", "new"}
    /\ pc = 1
    /\ x = 0
    /\ saved = <<>>
    /\ printed = FALSE
    /\ fontBy = "none"
    /\ colorBy = "none"
    /\ last = NoCall

-----------------------------------------------------------------------------
(* The script's steps.  An exception ends the run: no statement executes   *)
(* once pdf.err is set.                                                    *)

At(op) == phase = "script" /\ ~pdf.err /\ pc <= Len(Script) /\ Script[pc].op = op
Stmt == Script[pc]

(* A direct call of a canvas method by the script. *)
Direct(p, f, c) ==
    /\ pdf' = p
    /\ fontBy' = f
    /\ colorBy' = c
    /\ last' = NoCall
    /\ pc' = pc + 1
    /\ UNCHANGED <<phase, x, saved, printed>>

(* A call of a composer primitive by the script. *)
Composer(p, call) ==
    /\ pdf' = p
    /\ fontBy' = "composer"
    /\ colorBy' = "composer"
    /\ last' = call
    /\ pc' = pc + 1
    /\ UNCHANGED <<phase, x, saved, printed>>

ScriptAddSlide == At("add_slide") /\ Direct(add_slide(pdf), "none", "none")

ScriptSetFont ==
    At("set_font") /\ Direct(set_font(pdf, Stmt.family, Stmt.style, Stmt.size), "caller", colorBy)

ScriptSetTextColor ==
    At("set_text_color") /\ Direct(set_text_color(pdf, Stmt.r, Stmt.g, Stmt.b), fontBy, "caller")

ScriptSetFillColor ==
    At("set_fill_color") /\ Direct(set_fill_color(pdf, Stmt.r, Stmt.g, Stmt.b), fontBy, colorBy)

ScriptSetXY == At("set_xy") /\ Direct(set_xy(pdf, mm(Stmt.x), mm(Stmt.y)), fontBy, colorBy)

ScriptCell ==
    At("cell") /\ Direct(cell(pdf, mm(Stmt.w), mm(Stmt.h), Stmt.txt, 0, Stmt.align), fontBy, colorBy)

ScriptEllipse ==
    At("ellipse") /\ Direct(ellipse(pdf, mm(Stmt.x), mm(Stmt.y), mm(Stmt.w), mm(Stmt.h), Stmt.style),
                            fontBy, colorBy)

ScriptTitleText ==
    At("title_text") /\ Composer(title_text(pdf, Stmt.text, mm(Stmt.y), Stmt.size), OtherCall("title_text"))

ScriptSubtitleText ==
    At("subtitle_text")
    /\ Composer(subtitle_text(pdf, Stmt.text, mm(Stmt.y), Stmt.size), OtherCall("subtitle_text"))

ScriptHeading == At("heading") /\ Composer(heading(pdf, Stmt.text, mm(Stmt.y)), OtherCall("heading"))

ScriptBodyText ==
    At("body_text")
    /\ Composer(body_text(pdf, Stmt.text, mm(Stmt.x), mm(Stmt.y), Stmt.size), OtherCall("body_text"))

ScriptBox ==
    At("box")
    /\ Composer(box(pdf, mm(Stmt.x), mm(Stmt.y), mm(Stmt.w), mm(Stmt.h), Stmt.title, Stmt.items),
                BoxCall(mm(Stmt.x), mm(Stmt.y), mm(Stmt.w), mm(Stmt.h), Stmt.title, Stmt.items))

ScriptFeeRow ==
    At("fee_row") /\ Composer(fee_row(pdf, Stmt.label, Stmt.fee, Stmt.color, mm(Stmt.y)), OtherCall("fee_row"))

ScriptStatBox ==
    At("stat_box")
    /\ Composer(stat_box(pdf, mm(Stmt.x), mm(Stmt.y), Stmt.number, Stmt.label), OtherCall("stat_box"))

ScriptCodeBox == At("code_box") /\ Composer(code_box(pdf, Stmt.text, mm(Stmt.y)), OtherCall("code_box"))

ScriptBullet ==
    At("bullet")
    /\ Composer(bullet(pdf, Stmt.text, mm(Stmt.x), Stmt.y, Stmt.highlight),
                BulletCall(Stmt.text, mm(Stmt.x), Stmt.y, Stmt.highlight))

ScriptSlideNumber ==
    At("slide_number") /\ Composer(slide_number(pdf, Stmt.num), SlideNumberCall(Stmt.num))

(* x = 60 *)
ScriptAssignX ==
    /\ At("assign_x")
    /\ x' = mm(Stmt.v)
    /\ last' = NoCall
    /\ pc' = pc + 1
    /\ UNCHANGED <<pdf, phase, saved, printed, fontBy, colorBy>>

(* The composer call pdf.tag(text, x, y) with the caller's x. *)
TagStep(text, ty) ==
    /\ pdf' = tag(pdf, text, x, ty)
    /\ fontBy' = "composer"
    /\ colorBy' = "composer"
    /\ last' = TagCall(text, ty)

(* x += pdf.tag(tag, x, y): no assignment when tag raises *)
ScriptTagAdvance ==
    /\ At("tag_advance")
    /\ TagStep(Stmt.text, mm(Stmt.y))
    /\ x' = IF pdf.font = NoFont THEN x ELSE x + tag_return(pdf, Stmt.text)
    /\ pc' = pc + 1
    /\ UNCHANGED <<phase, saved, printed>>

(* pdf.tag(text, x, y), the returned width dropped *)
ScriptTag ==
    /\ At("tag")
    /\ TagStep(Stmt.text, mm(Stmt.y))
    /\ pc' = pc + 1
    /\ UNCHANGED <<phase, x, saved, printed>>

(* pdf.output(path): the document as it stands is serialized *)
output(p, s) == Append(s, p.pages)

ScriptOutput ==
    /\ At("output")
    /\ saved' = output(pdf, saved)
    /\ last' = NoCall
    /\ pc' = pc + 1
    /\ UNCHANGED <<pdf, phase, x, printed, fontBy, colorBy>>

ScriptPrint ==
    /\ At("print")
    /\ printed' = TRUE
    /\ last' = NoCall
    /\ pc' = pc + 1
    /\ UNCHANGED <<pdf, phase, x, saved, fontBy, colorBy>>

-----------------------------------------------------------------------------
(* An arbitrary caller of the composer: a new page, optionally a font and  *)
(* a cursor position of its choice, then one composer call or a run of     *)
(* chips laid out with x := x + tag(text, x, y).                           *)

Ready == phase \in {"page", "styled", "placed"} /\ ~pdf.err

(* The chips of a page: the rectangles tag draws (fill colour 80,40,40). *)
IsChip(d) == d.k = "rect" /\ d.fill = <<80, 40, 40>>
Chips(page) == SelectSeq(page.draws, IsChip)

Caller(p, ph, call) ==
    /\ pdf' = p
    /\ phase' = ph
    /\ last' = call
    /\ UNCHANGED <<pc, saved, printed>>

CallerAddSlide ==
    /\ phase = "new"
    /\ Caller(add_slide(pdf), "page", NoCall)
    /\ UNCHANGED <<x, fontBy, colorBy>>

CallerSetFont ==
    /\ phase = "page"
    /\ \E f \in CallerFonts : Caller(set_font(pdf, f.family, f.style, f.size), "styled", NoCall)
    /\ fontBy' = "caller"
    /\ UNCHANGED <<x, colorBy>>

CallerSetXY ==
    /\ phase \in {"page", "styled"}
    /\ \E c \in CallerXYs : Caller(set_xy(pdf, c[1], c[2]), "placed", NoCall)
    /\ UNCHANGED <<x, fontBy, colorBy>>

CallerStartRun ==
    /\ Ready
    /\ \E x0 \in StartXs : x' = x0
    /\ phase' = "run"
    /\ last' = NoCall
    /\ UNCHANGED <<pdf, pc, saved, printed, fontBy, colorBy>>

CallerTag ==
    /\ phase = "run" /\ ~pdf.err
    /\ Len(Chips(pdf.pages[Len(pdf.pages)])) < MaxRun
    /\ \E text \in TagTexts :
          /\ TagStep(text, mm(120))
          /\ x' = IF pdf.font = NoFont THEN x ELSE x + tag_return(pdf, text)
    /\ UNCHANGED <<phase, pc, saved, printed>>

CallerBullet ==
    /\ Ready
    /\ \E text \in BulletTexts, by \in BulletYs, hl \in Highlights :
          Caller(bullet(pdf, text, mm(25), by, hl), "called", BulletCall(text, mm(25), by, hl))
    /\ fontBy' = "composer"
    /\ colorBy' = "composer"
    /\ UNCHANGED x

CallerBox ==
    /\ Ready
    /\ \E f \in BoxFrames, items \in SeqsUpTo(ItemTexts, MaxItems) :
          Caller(box(pdf, f[1], f[2], f[3], f[4], <<"T">>, items), "called",
                 BoxCall(f[1], f[2], f[3], f[4], <<"T">>, items))
    /\ fontBy' = "composer"
    /\ colorBy' = "composer"
    /\ UNCHANGED x

CallerSlideNumber ==
    /\ Ready
    /\ \E n \in {1, 10} : Caller(slide_number(pdf, n), "called", SlideNumberCall(n))
    /\ fontBy' = "composer"
    /\ colorBy' = "composer"
    /\ UNCHANGED x

-----------------------------------------------------------------------------

Next ==
    \/ ScriptAddSlide \/ ScriptSetFont \/ ScriptSetTextColor \/ ScriptSetFillColor
    \/ ScriptSetXY \/ ScriptCell \/ ScriptEllipse
    \/ ScriptTitleText \/ ScriptSubtitleText \/ ScriptHeading \/ ScriptBodyText
    \/ ScriptBox \/ ScriptFeeRow \/ ScriptStatBox \/ ScriptCodeBox \/ ScriptBullet
    \/ ScriptSlideNumber \/ ScriptAssignX \/ ScriptTagAdvance \/ ScriptTag
    \/ ScriptOutput \/ ScriptPrint
    \/ CallerAddSlide \/ CallerSetFont \/ CallerSetXY \/ CallerStartRun
    \/ CallerTag \/ CallerBullet \/ CallerBox \/ CallerSlideNumber

Spec == Init /\ [][Next]_vars

-----------------------------------------------------------------------------
(* Vocabulary of the properties *)

CurrentPage == pdf.pages[Len(pdf.pages)]

(* What the most recent composer call drew: the draws of the current page  *)
(* beyond those the page held when the call began.                         *)
NewDraws ==
    LET before == IF last.pre.pages = <<>> THEN 0
                  ELSE Len(last.pre.pages[Len(last.pre.pages)].draws)
    IN  SubSeq(CurrentPage.draws, before + 1, Len(CurrentPage.draws))

Normal13 == Font("Helvetica", "", 13)
Bold13 == Font("Helvetica", "B", 13)

(* The positions at which h occurs in s, overlapping ones included. *)
Occurrences(s, h) == {i \in 1..(Len(s) - Len(h) + 1) : SubSeq(s, i, i + Len(h) - 1) = h}

IsBoldCell(d) == d.k = "cell" /\ d.font.style = "B"
PageTitle(page) == SelectSeq(page.draws, IsBoldCell)[1].txt

SlideTitles == <<
    <<"S", "e", "n", "t", "i", "m", "e", "n", "t", " ", "F", "e", "e", " ", "H", "o", "o", "k">>,
    <<"T", "h", "e", " ", "P", "r", "o", "b", "l", "e", "m">>,
    <<"O", "u", "r", " ", "S", "o", "l", "u", "t", "i", "o", "n">>,
    <<"A", "r", "c", "h", "i", "t", "e", "c", "t", "u", "r", "e">>,
    <<"S", "e", "n", "t", "i", "m", "e", "n", "t", " ", "D", "a", "t", "a", " ", "S", "o", "u", "r", "c", "e", "s">>,
    <<"S", "e", "c", "u", "r", "i", "t", "y", " ", "&", " ", "A", "n", "t", "i", "-", "M", "a", "n", "i", "p", "u", "l", "a", "t", "i", "o", "n">>,
    <<"T", "e", "c", "h", " ", "S", "t", "a", "c", "k">>,
    <<"D", "e", "c", "e", "n", "t", "r", "a", "l", "i", "z", "a", "t", "i", "o", "n", " ", "R", "o", "a", "d", "m", "a", "p">>,
    <<"Q", "u", "i", "c", "k", " ", "S", "t", "a", "r", "t">>,
    <<"T", "h", "a", "n", "k", " ", "Y", "o", "u">> >>

IsBackground(d) ==
    /\ d.k = "rect" /\ d.how = "F"
    /\ <<d.x, d.y, d.w, d.h>> = <<0, 0, mm(297), mm(210)>>

(* The number of add_slide statements the script has executed. *)
SlidesStarted == Cardinality({i \in 1..(pc - 1) : Script[i].op = "add_slide"})

ScriptDone == phase = "script" /\ pc > Len(Script)

-----------------------------------------------------------------------------
(* C1: when the script has run to completion the document holds exactly    *)
(* ten pages in the order title, problem, solution, architecture, data     *)
(* sources, security, tech stack, roadmap, quick start, thank-you; every   *)
(* page has the fixed landscape geometry 297 x 210 and begins with the     *)
(* full-page background rectangle; automatic page breaking is off and the  *)
(* only pages are those add_slide created (no draw call adds one).         *)
C1_TenPagesInOrder ==
    phase = "script" =>
        /\ ~pdf.auto
        /\ Len(pdf.pages) = SlidesStarted
        /\ \A i \in 1..Len(pdf.pages) :
              /\ <<pdf.pages[i].w, pdf.pages[i].h>> = <<mm(297), mm(210)>>
              /\ pdf.pages[i].draws # <<>>
              /\ IsBackground(pdf.pages[i].draws[1])
        /\ ScriptDone =>
              /\ Len(pdf.pages) = 10
              /\ \A i \in 1..10 : PageTitle(pdf.pages[i]) = SlideTitles[i]

C1_Witness == ScriptDone /\ printed /\ Len(pdf.pages) = 10

(* C2: for every tag call, whatever font is current when it is called, the *)
(* returned width and the width of the rectangle drawn are each at least   *)
(* the width of the text as tag renders it (Helvetica regular 9) plus the  *)
(* padding of 12.                                                          *)
C2_TagWidthCoversRenderedText ==
    (last.op = "tag" /\ ~pdf.err) =>
        LET chip == NewDraws[1]
            label == NewDraws[2]
            rendered == StringWidthIn(label.font, label.txt) + mm(12)
        IN  /\ label.font = Font("Helvetica", "", 9)
            /\ last.ret >= rendered
            /\ chip.w >= rendered

(* C3: in a run of chips laid out left to right with x := x + tag(...),    *)
(* every chip's left edge is strictly right of every earlier chip's right  *)
(* edge, on every page (the caller's runs and the script's three runs).    *)
C3_ChipsDoNotOverlap ==
    \A i \in 1..Len(pdf.pages) :
        LET chips == Chips(pdf.pages[i])
        IN  \A j, k \in 1..Len(chips) :
                j < k => chips[k].x > chips[j].x + chips[j].w

C3_Witness ==
    /\ phase = "run"
    /\ Len(Chips(CurrentPage)) >= 3
    /\ Chips(CurrentPage)[1].w # Chips(CurrentPage)[2].w

(* C4: a bullet call whose highlight is non-empty and occurs exactly once  *)
(* in the text draws, after the dot marker, exactly three text spans in    *)
(* order: the prefix in normal style, the highlight in bold 13 with colour *)
(* 254,202,87, the suffix in normal style; concatenated they are the text, *)
(* and the style left current is the normal one.                           *)
C4_HighlightOnceThreeSpans ==
    (/\ last.op = "bullet"
     /\ TruthyStr(last.highlight)
     /\ Cardinality(Occurrences(last.text, last.highlight[1])) = 1) =>
        LET d == NewDraws
        IN  /\ Len(d) = 4
            /\ d[1].k = "ellipse"
            /\ \A i \in 2..4 : d[i].k = "cell"
            /\ <<d[2].font, d[2].color>> = <<Normal13, <<220, 220, 220>> >>
            /\ <<d[3].font, d[3].color>> = <<Bold13, <<254, 202, 87>> >>
            /\ <<d[4].font, d[4].color>> = <<Normal13, <<220, 220, 220>> >>
            /\ d[3].txt = last.highlight[1]
            /\ d[2].txt \o d[3].txt \o d[4].txt = last.text
            /\ <<pdf.font, pdf.color>> = <<Normal13, <<220, 220, 220>> >>

C4_Witness ==
    /\ last.op = "bullet"
    /\ last.text = <<"a", "b", "a">>
    /\ last.highlight = Some(<<"b">>)
    /\ Len(NewDraws) = 4

(* C5: a bullet call whose highlight occurs at zero positions or at two or *)
(* more positions of the text raises no error and leaves exactly what the  *)
(* same call without a highlight leaves (marker, one span with the whole   *)
(* text in normal style, cursor and style).                                *)
C5_FallbackEqualsPlain ==
    (/\ last.op = "bullet"
     /\ TruthyStr(last.highlight)
     /\ Cardinality(Occurrences(last.text, last.highlight[1])) # 1) =>
        /\ ~pdf.err
        /\ pdf = bullet(last.pre, last.text, last.x, last.y, None)

(* C6: a box call draws the frame rectangle (x, y, w, h) and the title     *)
(* cell at (x + 5, y + 5) exactly once, then exactly len(items) marker-    *)
(* plus-text lines, item k (from 0) at vertical offset y + 18 + 7k; with   *)
(* no items it draws frame and title only, and it raises no error.         *)
C6_BoxFrameTitleItems ==
    last.op = "box" =>
        LET d == NewDraws
            bx == last.frame[1]
            by == last.frame[2]
            n == Len(last.items)
        IN  /\ ~pdf.err
            /\ Len(d) = 2 + 2 * n
            /\ d[1].k = "rect"
            /\ <<d[1].x, d[1].y, d[1].w, d[1].h>> = last.frame
            /\ d[2].k = "cell"
            /\ <<d[2].x, d[2].y, d[2].txt>> = <<bx + mm(5), by + mm(5), last.text>>
            /\ \A k \in 0..(n - 1) :
                  /\ d[3 + 2 * k].k = "ellipse"
                  /\ <<d[3 + 2 * k].x, d[3 + 2 * k].y>> = <<bx + mm(8), by + mm(18 + 7 * k) + mm(2)>>
                  /\ d[4 + 2 * k].k = "cell"
                  /\ <<d[4 + 2 * k].x, d[4 + 2 * k].y>> = <<bx + mm(14), by + mm(18 + 7 * k)>>
                  /\ d[4 + 2 * k].txt = last.items[k + 1]

C6_Witness ==
    /\ phase = "called"
    /\ last.op = "box"
    /\ last.items = <<>>
    /\ Len(NewDraws) = 2

(* C7: slide_number(num) only adds one right-aligned cell of width 10 at   *)
(* (280, 195): it changes no earlier draw and leaves the cursor (x, y)     *)
(* exactly where it was before the call.                                   *)
C7_SlideNumberKeepsCursor ==
    last.op = "slide_number" =>
        /\ Len(NewDraws) = 1
        /\ NewDraws[1].k = "cell" /\ NewDraws[1].how = "R"
        /\ <<NewDraws[1].x, NewDraws[1].y, NewDraws[1].w>> = <<mm(280), mm(195), mm(10)>>
        /\ Len(pdf.pages) = Len(last.pre.pages)
        /\ <<pdf.x, pdf.y>> = <<last.pre.x, last.pre.y>>

(* C8: pages are appended strictly in sequence and every draw lands on the *)
(* most recently added page (earlier pages and earlier draws never change);*)
(* the document is serialized exactly once, after slide_number(10), the    *)
(* last draw of the tenth page, and before the completion message; nothing *)
(* is drawn and no page is added after serialization.                      *)
AppendOnly ==
    /\ Len(pdf'.pages) \in {Len(pdf.pages), Len(pdf.pages) + 1}
    /\ \A i \in 1..Len(pdf.pages) :
          /\ Len(pdf'.pages[i].draws) >= Len(pdf.pages[i].draws)
          /\ SubSeq(pdf'.pages[i].draws, 1, Len(pdf.pages[i].draws)) = pdf.pages[i].draws
          /\ i < Len(pdf'.pages) => pdf'.pages[i] = pdf.pages[i]

SerializedOnceAtEnd ==
    /\ Len(saved) <= 1
    /\ printed => Len(saved) = 1
    /\ ScriptDone => printed
    /\ saved # <<>> =>
          /\ saved[1] = pdf.pages
          /\ Len(saved[1]) = 10
          /\ LET d == saved[1][10].draws
             IN  d[Len(d)].txt = <<"1", "0">> /\ d[Len(d)].how = "R"

C8_Lifecycle == []SerializedOnceAtEnd /\ [][AppendOnly]_vars

C8_Witness == printed /\ Len(saved) = 1 /\ saved[1] = pdf.pages

(* C9: every text cell the script draws directly is drawn with a font and  *)
(* a text colour that the script itself set on the same page after the     *)
(* most recent composer primitive call; none relies on the style a         *)
(* composer primitive left behind, none is drawn before a font was set on  *)
(* its page.                                                               *)
C9_DirectTextStyleSetByScript ==
    At("cell") => fontBy = "caller" /\ colorBy = "caller"

(* C10: a bullet call given an explicit y (0 included) draws the marker at *)
(* (x, y + 3), starts the text at (x + 8, y) and leaves the cursor at      *)
(* y + 10, whatever the cursor was before.                                 *)
C10_ExplicitYPlacesBullet ==
    (last.op = "bullet" /\ last.y # None) =>
        /\ <<NewDraws[1].k, NewDraws[1].x, NewDraws[1].y>> = <<"ellipse", last.x, last.y[1] + mm(3)>>
        /\ <<NewDraws[2].k, NewDraws[2].x, NewDraws[2].y>> = <<"cell", last.x + mm(8), last.y[1]>>
        /\ pdf.y = last.y[1] + mm(10)

=============================================================================
